---- MODULE Spec2Model ----
(***************************************************************************)
(* A model of the two tmuxinator dashboards of this repository:            *)
(*                                                                         *)
(*   src/tmuxinator_scripts/tmuxinator-ls-ddl.py  (MuxDashboard: the       *)
(*       Eisenhower matrix view: Project, load_projects, group_by_quadrant)*)
(*   src/tmuxinator-summary.py  (SummaryApp: AIAnalyzer, its day-scoped    *)
(*       cache file, the analysis worker and its completion callback)      *)
(*                                                                         *)
(* Representation.  A calendar date is a day number (a positive integer);  *)
(* "no date" (Python None) is NoDdl.  A Python str is a sequence of code   *)
(* points, so that str.lower() and the ordering of names are computed and  *)
(* not assumed.  An Optional[str] is a record [null, chars].               *)
(***************************************************************************)
EXTENDS Integers, Sequences, FiniteSets, TLC

VARIABLES
    today,       \* what date.today() returns
    configDir,   \* the *.yml descriptors of the config directory, in glob order
    projects,    \* MuxDashboard.projects
    quadrants,   \* MuxDashboard.quadrants
    groupedOn,   \* the date.today() that the last group_by_quadrant read
    apiKey,      \* AIAnalyzer.api_key is set
    cacheFile,   \* the file AIAnalyzer.cache_file
    appProjects, \* SummaryApp.projects
    frames,      \* per worker thread: the activation of run_worker_analyze
    panel,       \* what the AIRecommendationPanel shows
    hasAnalyzed, \* SummaryApp.has_analyzed
    mounted,     \* on_mount has run
    faulted,     \* on_analysis_complete raised
    lastGood     \* history: the last external call that returned usable content

matrixVars == <<projects, quadrants, groupedOn>>

summaryVars ==
    <<apiKey, cacheFile, appProjects, frames, panel, hasAnalyzed, mounted,
      faulted, lastGood>>

vars == <<today, configDir, matrixVars, summaryVars>>

----------------------------------------------------------------------------
(* Bounds of the model *)

\* the first simulated calendar day
FirstDay == 10

\* how many times the calendar day advances
MaxTicks == 1

\* the largest number of descriptors in the config directory
MaxProjects == 3

LastDay == FirstDay + MaxTicks

----------------------------------------------------------------------------
(* Strings *)

\* Optional[str]
NoneStr == [null |-> TRUE, chars |-> <<>>]

Str(s) == [null |-> FALSE, chars |-> s]

\* Python truthiness of an Optional[str]: None and "" are falsy
Truthy(o) == (~o.null) /\ Len(o.chars) > 0

\* str.lower() on one code point (ASCII letters)
LowerChar(c) == IF c \in 65..90 THEN c + 32 ELSE c

\* str.lower()
Lower(s) == [i \in 1..Len(s) |-> LowerChar(s[i])]

\* s < t for Python str: lexicographic by code point, a proper prefix first
RECURSIVE StrLess(_, _)
StrLess(s, t) ==
    IF Len(t) = 0 THEN FALSE
    ELSE IF Len(s) = 0 THEN TRUE
    ELSE IF Head(s) # Head(t) THEN Head(s) < Head(t)
    ELSE StrLess(Tail(s), Tail(t))

\* the literals of the source
TagHigh == <<104, 105, 103, 104>>

TagUrgent == <<117, 114, 103, 101, 110, 116>>

TagLow == <<108, 111, 119>>

TagNormal == <<110, 111, 114, 109, 97, 108>>

----------------------------------------------------------------------------
(* Project (tmuxinator-ls-ddl.py) *)

\* ddl = None
NoDdl == 0

\* days_left of a project without a deadline, as the sort key sees it
NoDeadlineKey == 9999

\* the urgency threshold, in days
UrgentDays == 7

\* Project.__init__ without the lower-casing
NewProjectNoLower(name, ddl, priority) ==
    [name |-> name,
     ddl |-> ddl,
     priority |-> IF Truthy(priority) THEN priority.chars ELSE TagNormal]

\* Project.__init__: the priority is lower-cased, a falsy one becomes "normal"
NewProject(name, ddl, priority) ==
    [name |-> name,
     ddl |-> ddl,
     priority |-> IF Truthy(priority) THEN Lower(priority.chars) ELSE TagNormal]

\* Project.urgency with "<" for "<="
UrgencyStrict(p, t) ==
    IF p.ddl = NoDdl THEN "no_deadline"
    ELSE IF p.ddl - t < UrgentDays THEN "urgent" ELSE "not_urgent"

\* Project.urgency
Urgency(p, t) ==
    IF p.ddl = NoDdl THEN "no_deadline"
    ELSE IF p.ddl - t <= UrgentDays THEN "urgent" ELSE "not_urgent"

\* Project.importance
Importance(p) ==
    IF p.priority \in {TagHigh, TagUrgent} THEN "important"
    ELSE IF p.priority = TagLow THEN "low"
    ELSE "routine"

\* the mapping dict without its no_deadline entries
MappingUrgentOnly ==
    (<<"urgent", "important">> :> "q1") @@
    (<<"not_urgent", "important">> :> "q2") @@
    (<<"urgent", "routine">> :> "q3") @@
    (<<"not_urgent", "routine">> :> "q4") @@
    (<<"urgent", "low">> :> "q5") @@
    (<<"not_urgent", "low">> :> "q6")

\* the mapping dict of Project.quadrant
Mapping ==
    (<<"urgent", "important">> :> "q1") @@
    (<<"not_urgent", "important">> :> "q2") @@
    (<<"urgent", "routine">> :> "q3") @@
    (<<"not_urgent", "routine">> :> "q4") @@
    (<<"urgent", "low">> :> "q5") @@
    (<<"not_urgent", "low">> :> "q6") @@
    (<<"no_deadline", "important">> :> "q1") @@
    (<<"no_deadline", "routine">> :> "q4") @@
    (<<"no_deadline", "low">> :> "q6")

\* mapping.get((urg, imp), "q4")
MappingGet(urg, imp) ==
    IF <<urg, imp>> \in DOMAIN Mapping THEN Mapping[<<urg, imp>>] ELSE "q4"

\* Project.quadrant
Quadrant(p, t) == MappingGet(Urgency(p, t), Importance(p))

\* Project.days_left (only read where ddl is present; None is handled by callers)
DaysLeft(p, t) == p.ddl - t

\* Project.is_overdue
IsOverdue(p, t) == p.ddl # NoDdl /\ DaysLeft(p, t) < 0

----------------------------------------------------------------------------
(* load_projects and group_by_quadrant (tmuxinator-ls-ddl.py) *)

\* load_projects: one Project per descriptor, in glob order
LoadProjects(dir) ==
    [i \in 1..Len(dir) |-> NewProject(dir[i].name, dir[i].ddl, dir[i].priority)]

QuadrantIds == {"q1", "q2", "q3", "q4", "q5", "q6"}

\* the key of the sort in group_by_quadrant
SortKey(p, t) ==
    <<IF IsOverdue(p, t) THEN 0 ELSE 1,
      IF p.ddl # NoDdl THEN DaysLeft(p, t) ELSE NoDeadlineKey,
      p.name>>

\* the comparison of keys that skips the days
KeyLessNoDays(k1, k2) ==
    \/ k1[1] < k2[1]
    \/ k1[1] = k2[1] /\ StrLess(k1[3], k2[3])

\* k1 < k2 for the key tuples
KeyLess(k1, k2) ==
    \/ k1[1] < k2[1]
    \/ k1[1] = k2[1] /\ k1[2] < k2[2]
    \/ k1[1] = k2[1] /\ k1[2] = k2[2] /\ StrLess(k1[3], k2[3])

\* insert p into the sorted list s behind every element that is not greater
RECURSIVE InsertSorted(_, _, _)
InsertSorted(p, s, t) ==
    IF s = <<>> THEN <<p>>
    ELSE IF KeyLess(SortKey(p, t), SortKey(Head(s), t)) THEN <<p>> \o s
    ELSE <<Head(s)>> \o InsertSorted(p, Tail(s), t)

\* list.sort(key=...): a stable sort
RECURSIVE SortByKey(_, _)
SortByKey(s, t) ==
    IF s = <<>> THEN <<>>
    ELSE InsertSorted(s[Len(s)], SortByKey(SubSeq(s, 1, Len(s) - 1), t), t)

\* the projects of ps whose quadrant is q, in input order
RECURSIVE Bucket(_, _, _)
Bucket(ps, q, t) ==
    IF ps = <<>> THEN <<>>
    ELSE (IF Quadrant(Head(ps), t) = q THEN <<Head(ps)>> ELSE <<>>)
         \o Bucket(Tail(ps), q, t)

\* group_by_quadrant that fills only q1..q4
GroupByQuadrantFour(ps, t) ==
    [q \in QuadrantIds |->
        IF q \in {"q5", "q6"} THEN <<>> ELSE SortByKey(Bucket(ps, q, t), t)]

\* group_by_quadrant
GroupByQuadrant(ps, t) == [q \in QuadrantIds |-> SortByKey(Bucket(ps, q, t), t)]

----------------------------------------------------------------------------
(* The inputs of the matrix view *)

\* project names: "a", "ab", "b"
Names == {<<97>>, <<97, 98>>, <<98>>}

\* deadlines: none, overdue, due on the first day, and those around the threshold
Deadlines == {NoDdl, FirstDay - 1, FirstDay, FirstDay + 7, FirstDay + 8, FirstDay + 9}

\* the deadlines used in the longer lists
ListDeadlines == {NoDdl, FirstDay - 1, FirstDay + 7, FirstDay + 8}

\* raw priority values of a descriptor: absent, "", "HIGH", "High", "high",
\* "Urgent", "LOW", "low", "normal", "mid", " high"
RawTags ==
    {NoneStr, Str(<<>>), Str(<<72, 73, 71, 72>>), Str(<<72, 105, 103, 104>>),
     Str(TagHigh), Str(<<85, 114, 103, 101, 110, 116>>), Str(<<76, 79, 87>>),
     Str(TagLow), Str(TagNormal), Str(<<109, 105, 100>>),
     Str(<<32, 104, 105, 103, 104>>)}

Descriptors(names, ddls, tags) == [name : names, ddl : ddls, priority : tags]

\* the descriptors used in the longer lists: both names with the priority
\* "HIGH", and "ab" with the priority "low"
ListDescriptors ==
    Descriptors({<<97, 98>>, <<98>>}, ListDeadlines, {Str(<<72, 73, 71, 72>>)})
    \cup Descriptors({<<97, 98>>}, ListDeadlines, {Str(TagLow)})

\* the sequences over S of length at most n
SeqsUpTo(S, n) == UNION {[1..k -> S] : k \in 0..n}

----------------------------------------------------------------------------
(* The recommendation cache and the analyzer (tmuxinator-summary.py) *)

\* result["error"] values; NoError is Python None
NoError == "None"

ErrNoKey == "API key not found. Set $chat_any_where_key environment variable."

ErrNoProjects == "No projects to analyze"

\* an except branch of analyze_projects that reports no message
ErrApiEmpty == ""

\* f"API call failed: {str(e)}"
ErrApi == "API call failed: ..."

ErrEmptyResponse == "AI returned an empty response"

\* an AnalysisResult dict, or None (present = FALSE)
Result(err, content) == [present |-> TRUE, error |-> err, content |-> content]

NoResult == [present |-> FALSE, error |-> NoError, content |-> NoneStr]

\* the cache file: missing, not loadable as a JSON object, or {date, content}
NoFile == [kind |-> "missing", date |-> NoDdl, content |-> NoneStr]

Unreadable == [kind |-> "unreadable", date |-> NoDdl, content |-> NoneStr]

Entry(d, c) == [kind |-> "entry", date |-> d, content |-> c]

\* load_cached_analysis without the comparison of the dates
LoadCachedAnyDay(file, t) ==
    IF file.kind = "missing" THEN NoResult
    ELSE IF file.kind = "unreadable" THEN NoResult
    ELSE Result(NoError, file.content)

\* AIAnalyzer.load_cached_analysis
LoadCachedAnalysis(file, t) ==
    IF file.kind = "missing" THEN NoResult
    ELSE IF file.kind = "unreadable" THEN NoResult
    ELSE IF file.date = t THEN Result(NoError, file.content)
    ELSE NoResult

\* analyze_projects that never reads the cache
NeverConsultsCache(force) == FALSE

\* analyze_projects that reads the cache even when forced
AlwaysConsultsCache(force) == TRUE

\* "if not force:" of analyze_projects
ConsultsCache(force) == ~force

\* analyze_projects without the check of the project list
PreflightKeyOnly(key, projs) == IF ~key THEN ErrNoKey ELSE NoError

\* the two early returns of analyze_projects: the error, or NoError to go on
Preflight(key, projs) ==
    IF ~key THEN ErrNoKey
    ELSE IF Len(projs) = 0 THEN ErrNoProjects
    ELSE NoError

\* "if content:" of analyze_projects: whether the response is saved
SavesContent(content) == Truthy(content)

\* str.strip() == "" : every code point is white space
IsBlank(s) == \A i \in 1..Len(s) : s[i] \in {32, 9, 10, 13}

\* "if not content or content.strip() == ''" of on_analysis_complete
IsEmptyResponse(content) == (~Truthy(content)) \/ IsBlank(content.chars)

----------------------------------------------------------------------------
(* load_projects of the summary view (tmuxinator-summary.py) *)

\* the key (p.ddl, p.name)
DdlNameLess(p, q) == p.ddl < q.ddl \/ (p.ddl = q.ddl /\ StrLess(p.name, q.name))

\* the key p.name
NameLess(p, q) == StrLess(p.name, q.name)

\* the key of either sort: (p.ddl, p.name) when byDdl, p.name otherwise
SummaryLess(byDdl, p, q) == IF byDdl THEN DdlNameLess(p, q) ELSE NameLess(p, q)

RECURSIVE InsertBy(_, _, _)
InsertBy(byDdl, p, s) ==
    IF s = <<>> THEN <<p>>
    ELSE IF SummaryLess(byDdl, p, Head(s)) THEN <<p>> \o s
    ELSE <<Head(s)>> \o InsertBy(byDdl, p, Tail(s))

\* list.sort(key=...): a stable sort
RECURSIVE SortBy(_, _)
SortBy(byDdl, s) ==
    IF s = <<>> THEN <<>>
    ELSE InsertBy(byDdl, s[Len(s)], SortBy(byDdl, SubSeq(s, 1, Len(s) - 1)))

HasDdl(p) == p.ddl # NoDdl

HasNoDdl(p) == p.ddl = NoDdl

\* load_projects that sorts the whole list by (p.ddl, p.name)
SummaryLoadProjectsUnsplit(dir) == SortBy(TRUE, LoadProjects(dir))

\* load_projects: the projects with a deadline first
SummaryLoadProjects(dir) ==
    SortBy(TRUE, SelectSeq(LoadProjects(dir), HasDdl))
    \o SortBy(FALSE, SelectSeq(LoadProjects(dir), HasNoDdl))

----------------------------------------------------------------------------
(* The state of the summary view *)

\* the largest number of worker threads alive at once
MaxWorkers == 2

Workers == 1..MaxWorkers

\* response.choices[0].message.content: None, "", " ", "R1", "R2"
Contents == {NoneStr, Str(<<>>), Str(<<32>>), Str(<<82, 49>>), Str(<<82, 50>>)}

\* the content of a cache file left by an earlier run: "R0"
OldContent == Str(<<82, 48>>)

\* the cache file at start: none, a damaged one, yesterday's, today's
InitialCacheFiles ==
    {NoFile, Unreadable, Entry(FirstDay - 1, OldContent), Entry(FirstDay, OldContent)}

\* the config directory of the summary view: empty, or one or two descriptors
SummaryConfigs ==
    {<<>>,
     <<[name |-> <<98>>, ddl |-> NoDdl, priority |-> NoneStr],
       [name |-> <<97>>, ddl |-> FirstDay + 3, priority |-> Str(TagHigh)]>>}

NoGood == [day |-> NoDdl, saved |-> FALSE]

PanelEmpty == [state |-> "empty", content |-> NoneStr, error |-> NoError]

PanelAnalyzing == [state |-> "analyzing", content |-> NoneStr, error |-> NoError]

PanelResults(c) == [state |-> "ready", content |-> c, error |-> NoError]

PanelError(e) == [state |-> "error", content |-> NoneStr, error |-> e]

\* an activation of run_worker_analyze / analyze_projects.
\*   pc: idle, started, calling, writing, returned, done, raised, faulted
\*   force, args: the arguments of analyze_projects
\*   cached, content: its locals; cacheData: the local of save_analysis_to_cache
\*   result: the dict it returns
\*   superseded: a later run_worker_analyze has cancelled this worker
\*   calls, wrote, startDay, respondedOn, priorGood, cacheBefore: history
IdleFrame ==
    [pc |-> "idle", force |-> FALSE, args |-> <<>>, cached |-> NoResult,
     content |-> NoneStr, cacheData |-> NoFile, result |-> NoResult,
     calls |-> 0, wrote |-> "no", startDay |-> NoDdl, respondedOn |-> NoDdl,
     priorGood |-> NoGood, cacheBefore |-> NoFile, superseded |-> FALSE]

\* the thread of frame f is alive: run_worker_analyze has been started and
\* on_analysis_complete has not run
Outstanding(f) == f.pc \in {"started", "calling", "writing", "returned"}

----------------------------------------------------------------------------
(* The actions of the summary view *)

\* SummaryApp.on_mount
OnMount ==
    /\ ~mounted
    /\ mounted' = TRUE
    /\ LET cached == LoadCachedAnalysis(cacheFile, today)
       IN IF cached.present /\ Truthy(cached.content)
          THEN panel' = PanelResults(cached.content) /\ hasAnalyzed' = TRUE
          ELSE UNCHANGED <<panel, hasAnalyzed>>
    /\ UNCHANGED <<today, configDir, matrixVars, apiKey, cacheFile, appProjects,
                   frames, faulted, lastGood>>

\* SummaryApp.action_refresh
SummaryRefresh ==
    /\ mounted /\ ~faulted
    /\ appProjects' = SummaryLoadProjects(configDir)
    /\ UNCHANGED <<today, configDir, matrixVars, apiKey, cacheFile, frames, panel,
                   hasAnalyzed, mounted, faulted, lastGood>>

\* SummaryApp.action_analyze: show the analyzing state, start the worker.
\* run_worker_analyze always passes force = TRUE; the parameter is the force
\* argument of analyze_projects. @work(exclusive=True, thread=True) cancels
\* the workers that are still running, which does not stop their threads.
ActionAnalyze(w, force) ==
    /\ mounted /\ ~faulted
    /\ ~Outstanding(frames[w])
    /\ panel' = PanelAnalyzing
    /\ frames' = [v \in Workers |->
          IF v = w THEN [IdleFrame EXCEPT !.pc = "started", !.force = force]
          ELSE IF Outstanding(frames[v]) THEN [frames[v] EXCEPT !.superseded = TRUE]
          ELSE frames[v]]
    /\ UNCHANGED <<today, configDir, matrixVars, apiKey, cacheFile, appProjects,
                   hasAnalyzed, mounted, faulted, lastGood>>

\* analyze_projects up to the external call: the cache, the credential and the
\* project list are checked in this order
AnalyzeBegin(w) ==
    /\ frames[w].pc = "started"
    /\ LET f == frames[w]
           cached == IF ConsultsCache(f.force)
                     THEN LoadCachedAnalysis(cacheFile, today)
                     ELSE NoResult
           err == Preflight(apiKey, appProjects)
           base == [f EXCEPT !.args = appProjects, !.cached = cached,
                             !.startDay = today, !.priorGood = lastGood,
                             !.cacheBefore = cacheFile]
       IN frames' = [frames EXCEPT ![w] =
             IF cached.present
             THEN [base EXCEPT !.pc = "returned", !.result = cached]
             ELSE IF err # NoError
             THEN [base EXCEPT !.pc = "returned",
                               !.result = Result(err, Str(<<>>))]
             ELSE [base EXCEPT !.pc = "calling", !.calls = f.calls + 1]]
    /\ UNCHANGED <<today, configDir, matrixVars, apiKey, cacheFile, appProjects,
                   panel, hasAnalyzed, mounted, faulted, lastGood>>

\* the external call returns content c; content that is saved goes to
\* save_analysis_to_cache, whose open(..., 'w') truncates the file (opened) or
\* raises, which is swallowed
ApiReturn(w, c, opened) ==
    /\ frames[w].pc = "calling"
    /\ LET f == [frames[w] EXCEPT !.content = c, !.respondedOn = today]
       IN IF SavesContent(c)
          THEN IF opened
               THEN /\ frames' = [frames EXCEPT ![w] =
                          [f EXCEPT !.pc = "writing", !.cacheData = Entry(today, c)]]
                    /\ cacheFile' = Unreadable
                    /\ UNCHANGED lastGood
               ELSE /\ frames' = [frames EXCEPT ![w] =
                          [f EXCEPT !.pc = "returned", !.cacheData = Entry(today, c),
                                    !.wrote = "failed",
                                    !.result = Result(NoError, c)]]
                    /\ lastGood' = IF Truthy(c)
                                   THEN [day |-> today, saved |-> FALSE]
                                   ELSE lastGood
                    /\ UNCHANGED cacheFile
          ELSE /\ opened
               /\ frames' = [frames EXCEPT ![w] =
                     [f EXCEPT !.pc = "returned", !.result = Result(NoError, c)]]
               /\ lastGood' = IF Truthy(c)
                              THEN [day |-> today, saved |-> FALSE]
                              ELSE lastGood
               /\ UNCHANGED cacheFile
    /\ UNCHANGED <<today, configDir, matrixVars, apiKey, appProjects, panel,
                   hasAnalyzed, mounted, faulted>>

\* the external call raises: the except branch of analyze_projects
ApiRaise(w) ==
    /\ frames[w].pc = "calling"
    /\ frames' = [frames EXCEPT ![w] =
          [@ EXCEPT !.pc = "returned", !.result = Result(ErrApi, Str(<<>>))]]
    /\ UNCHANGED <<today, configDir, matrixVars, apiKey, cacheFile, appProjects,
                   panel, hasAnalyzed, mounted, faulted, lastGood>>

\* the bytes of data written from offset 0 over file: a longer entry that
\* another writer has put there since the file was opened keeps its tail
DumpOver(file, data) ==
    IF file.kind = "entry" /\ Len(file.content.chars) > Len(data.content.chars)
    THEN Unreadable
    ELSE data

\* json.dump into the opened file: the entry is complete (ok), or the write
\* raises part way, which is swallowed; then analyze_projects returns
SaveDump(w, ok) ==
    /\ frames[w].pc = "writing"
    /\ LET f == frames[w]
       IN /\ cacheFile' = IF ok THEN DumpOver(cacheFile, f.cacheData) ELSE Unreadable
          /\ frames' = [frames EXCEPT ![w] =
                [f EXCEPT !.pc = "returned", !.wrote = IF ok THEN "ok" ELSE "failed",
                          !.result = Result(NoError, f.content)]]
          /\ lastGood' = IF Truthy(f.content)
                         THEN [day |-> f.cacheData.date, saved |-> ok]
                         ELSE lastGood
    /\ UNCHANGED <<today, configDir, matrixVars, apiKey, appProjects, panel,
                   hasAnalyzed, mounted, faulted>>

\* len(result.get('content', '')) of on_analysis_complete raises on None
CallbackRaises(r) == r.content.null

\* what on_analysis_complete shows
PanelAfter(r) ==
    IF r.error # NoError THEN PanelError(r.error)
    ELSE IF IsEmptyResponse(r.content) THEN PanelError(ErrEmptyResponse)
    ELSE PanelResults(r.content)

\* call_from_thread(self.on_analysis_complete, result). An exception of the
\* callback is raised in the worker thread: it ends the application, unless
\* the worker has been cancelled, when nothing awaits it
Complete(w) ==
    /\ frames[w].pc = "returned"
    /\ ~faulted
    /\ LET r == frames[w].result
       IN IF CallbackRaises(r)
          THEN /\ faulted' = ~frames[w].superseded
               /\ frames' = [frames EXCEPT ![w].pc =
                     IF frames[w].superseded THEN "raised" ELSE "faulted"]
               /\ UNCHANGED <<panel, hasAnalyzed>>
          ELSE /\ panel' = PanelAfter(r)
               /\ hasAnalyzed' = (hasAnalyzed \/ PanelAfter(r).state = "ready")
               /\ frames' = [frames EXCEPT ![w].pc = "done"]
               /\ UNCHANGED faulted
    /\ UNCHANGED <<today, configDir, matrixVars, apiKey, cacheFile, appProjects,
                   mounted, lastGood>>

\* the user edits the config directory
EditConfig ==
    /\ \E dir \in SummaryConfigs : dir # configDir /\ configDir' = dir
    /\ UNCHANGED <<today, matrixVars, summaryVars>>

\* midnight
Tick ==
    /\ today < LastDay
    /\ today' = today + 1
    /\ UNCHANGED <<configDir, matrixVars, summaryVars>>

----------------------------------------------------------------------------
(* The matrix view: MuxDashboard *)

\* MuxDashboard.action_refresh
MatrixRefresh ==
    /\ projects' = LoadProjects(configDir)
    /\ quadrants' = GroupByQuadrant(projects', today)
    /\ groupedOn' = today
    /\ UNCHANGED <<today, configDir, summaryVars>>

SummaryIdle ==
    /\ apiKey = FALSE
    /\ cacheFile = NoFile
    /\ appProjects = <<>>
    /\ frames = [w \in Workers |-> IdleFrame]
    /\ panel = PanelEmpty
    /\ hasAnalyzed = FALSE
    /\ mounted = FALSE
    /\ faulted = FALSE
    /\ lastGood = NoGood

\* MuxDashboard.__init__ over a config directory dir
MatrixInit(dir) ==
    /\ today = FirstDay
    /\ configDir = dir
    /\ projects = LoadProjects(dir)
    /\ quadrants = GroupByQuadrant(LoadProjects(dir), FirstDay)
    /\ groupedOn = FirstDay
    /\ SummaryIdle

\* lists of projects
InitMatrix ==
    \E dir \in SeqsUpTo(ListDescriptors, MaxProjects) : MatrixInit(dir)

\* at most one project, with every raw priority value
InitClassify == \E dir \in SeqsUpTo(Descriptors(Names, Deadlines, RawTags), 1) : MatrixInit(dir)

NextMatrix == MatrixRefresh \/ Tick

SpecMatrix == InitMatrix /\ [][NextMatrix]_vars

SpecClassify == InitClassify /\ [][NextMatrix]_vars

----------------------------------------------------------------------------
(* Claims about the classifier (specification SpecClassify) *)

\* the table of the specification, row by row; q4 outside it
TableQuadrant(u, i) ==
    CASE u = "urgent" /\ i = "important" -> "q1"
      [] u = "urgent" /\ i = "routine" -> "q3"
      [] u = "urgent" /\ i = "low" -> "q5"
      [] u = "not_urgent" /\ i = "important" -> "q2"
      [] u = "not_urgent" /\ i = "routine" -> "q4"
      [] u = "not_urgent" /\ i = "low" -> "q6"
      [] u = "no_deadline" /\ i = "important" -> "q1"
      [] u = "no_deadline" /\ i = "routine" -> "q4"
      [] u = "no_deadline" /\ i = "low" -> "q6"
      [] OTHER -> "q4"

\* C1: Project.quadrant is a total function of (urgency, importance): every
\* pair of the enumerations gets the quadrant of the table, a pair outside the
\* table gets q4, and every project the dashboard has grouped sits in the
\* quadrant the table gives for its urgency and importance.
C1_QuadrantTable ==
    /\ \A u \in {"urgent", "not_urgent", "no_deadline", "other"} :
         \A i \in {"important", "routine", "low", "other"} :
            /\ MappingGet(u, i) \in QuadrantIds
            /\ MappingGet(u, i) = TableQuadrant(u, i)
    /\ \A q \in QuadrantIds : \A k \in 1..Len(quadrants[q]) :
         q = TableQuadrant(Urgency(quadrants[q][k], groupedOn),
                           Importance(quadrants[q][k]))

\* a project without a deadline and with a low priority was grouped after midnight
C1_Witness ==
    /\ groupedOn = LastDay
    /\ Len(quadrants["q6"]) = 1
    /\ quadrants["q6"][1].ddl = NoDdl
    /\ quadrants["q6"][1].priority = TagLow

\* C2: urgency is no_deadline without a deadline, urgent when deadline - today
\* is at most 7 (zero and negative values included) and not_urgent from 8 on.
C2_Urgency ==
    \A k \in 1..Len(projects) :
        LET p == projects[k]
        IN /\ p.ddl = NoDdl => Urgency(p, today) = "no_deadline"
           /\ (p.ddl # NoDdl /\ p.ddl - today < 8) => Urgency(p, today) = "urgent"
           /\ (p.ddl # NoDdl /\ p.ddl - today >= 8) => Urgency(p, today) = "not_urgent"

\* a project exactly 7 days ahead, grouped today among the urgent ones
C2_Witness ==
    /\ Len(projects) = 1
    /\ projects[1].ddl - today = 7
    /\ groupedOn = today
    /\ \E q \in {"q1", "q3", "q5"} : quadrants[q] = projects

\* upper-casing of one code point, the other way to ignore case
UpperChar(c) == IF c \in 97..122 THEN c - 32 ELSE c

\* the raw tag o equals the literal lit when case is ignored
SameIgnoringCase(o, lit) ==
    /\ ~o.null
    /\ Len(o.chars) = Len(lit)
    /\ \A k \in 1..Len(lit) : UpperChar(o.chars[k]) = UpperChar(lit[k])

\* C3: importance is important for the tags high and urgent, low for the tag
\* low, routine for every other tag and for an absent one, in any letter case.
C3_Importance ==
    /\ Len(projects) = Len(configDir)
    /\ \A k \in 1..Len(configDir) :
        LET raw == configDir[k].priority
        IN Importance(projects[k]) =
              IF SameIgnoringCase(raw, TagHigh) \/ SameIgnoringCase(raw, TagUrgent)
              THEN "important"
              ELSE IF SameIgnoringCase(raw, TagLow) THEN "low"
              ELSE "routine"

\* the tag "HIGH" was loaded and counts as important
C3_Witness ==
    /\ Len(configDir) = 1
    /\ configDir[1].priority = Str(<<72, 73, 71, 72>>)
    /\ Importance(projects[1]) = "important"
    /\ Len(quadrants["q1"]) + Len(quadrants["q2"]) = 1

\* C18: the stored priority tag is normalized at construction: a tag that is
\* high, urgent or low in any letter case is stored in lower case, every other
\* value and an absent one are stored as normal, so the stored tag is always
\* one of high, urgent, low and normal.
C18_TagNormalized ==
    /\ Len(projects) = Len(configDir)
    /\ \A k \in 1..Len(configDir) :
        LET raw == configDir[k].priority
            tag == projects[k].priority
        IN /\ tag \in {TagHigh, TagUrgent, TagLow, TagNormal}
           /\ tag = IF SameIgnoringCase(raw, TagHigh) THEN TagHigh
                    ELSE IF SameIgnoringCase(raw, TagUrgent) THEN TagUrgent
                    ELSE IF SameIgnoringCase(raw, TagLow) THEN TagLow
                    ELSE TagNormal

----------------------------------------------------------------------------
(* Claims about the aggregator (specification SpecMatrix) *)

\* how often v occurs in the list s
Count(s, v) == Cardinality({k \in DOMAIN s : s[k] = v})

RECURSIVE SumLen(_)
SumLen(Q) ==
    IF Q = {} THEN 0
    ELSE LET q == CHOOSE x \in Q : TRUE IN Len(quadrants[q]) + SumLen(Q \ {q})

\* C4: group_by_quadrant partitions its input: the result has the six keys
\* q1..q6, every project is in the list of its own quadrant exactly as often as
\* in the input and in no other list, and the lengths add up to the input's.
C4_Partition ==
    /\ DOMAIN quadrants = QuadrantIds
    /\ SumLen(QuadrantIds) = Len(projects)
    /\ \A k \in 1..Len(projects) : \A q \in QuadrantIds :
         Count(quadrants[q], projects[k]) =
            IF q = Quadrant(projects[k], groupedOn)
            THEN Count(projects, projects[k])
            ELSE 0
    /\ \A q \in QuadrantIds : \A k \in 1..Len(quadrants[q]) :
         Count(projects, quadrants[q][k]) > 0

\* three projects, one of them twice, spread over two quadrants
C4_Witness ==
    /\ Len(projects) = 3
    /\ projects[1] = projects[3]
    /\ projects[1] # projects[2]
    /\ Len(quadrants["q1"]) = 2
    /\ Len(quadrants["q6"]) = 1
    /\ quadrants["q4"] = <<>>

\* the parts of the key as the specification words them
SpecOverdue(p) == p.ddl # NoDdl /\ p.ddl < groupedOn

SpecDays(p) == IF p.ddl = NoDdl THEN 9999 ELSE p.ddl - groupedOn

\* a may stand before b
SpecOrdered(a, b) ==
    /\ SpecOverdue(b) => SpecOverdue(a)
    /\ (SpecOverdue(a) = SpecOverdue(b)) => SpecDays(a) <= SpecDays(b)
    /\ (SpecOverdue(a) = SpecOverdue(b) /\ SpecDays(a) = SpecDays(b))
          => ~StrLess(b.name, a.name)

\* C5: every quadrant list is ascending in (0 if overdue else 1, daysLeft or
\* 9999, name): overdue projects first whatever their names, then the smaller
\* daysLeft first whatever the names, then by name.
C5_SortedQuadrants ==
    \A q \in QuadrantIds : \A i, j \in 1..Len(quadrants[q]) :
        i < j => SpecOrdered(quadrants[q][i], quadrants[q][j])

\* an overdue "b" before a nearer "b" before a later "ab" in one quadrant
C5_Witness ==
    \E q \in QuadrantIds :
        /\ Len(quadrants[q]) = 3
        /\ SpecOverdue(quadrants[q][1]) /\ quadrants[q][1].name = <<98>>
        /\ ~SpecOverdue(quadrants[q][2]) /\ quadrants[q][2].name = <<98>>
        /\ SpecDays(quadrants[q][2]) < SpecDays(quadrants[q][3])
        /\ quadrants[q][3].name = <<97, 98>>
        /\ quadrants[q][3].ddl # NoDdl
        /\ projects[1] = quadrants[q][3]

----------------------------------------------------------------------------
(* The analyzer called by one caller at a time, with either value of force *)

InitSummary ==
    /\ today = FirstDay
    /\ configDir \in SummaryConfigs
    /\ projects = <<>>
    /\ quadrants = [q \in QuadrantIds |-> <<>>]
    /\ groupedOn = FirstDay
    /\ apiKey \in BOOLEAN
    /\ cacheFile \in InitialCacheFiles
    /\ appProjects = SummaryLoadProjects(configDir)
    /\ frames = [w \in Workers |-> IdleFrame]
    /\ panel = PanelEmpty
    /\ hasAnalyzed = FALSE
    /\ mounted = FALSE
    /\ faulted = FALSE
    /\ lastGood = NoGood

NextApi ==
    \/ OnMount
    \/ SummaryRefresh
    \/ \E force \in BOOLEAN : ActionAnalyze(1, force)
    \/ AnalyzeBegin(1)
    \/ \E c \in Contents, opened \in BOOLEAN : ApiReturn(1, c, opened)
    \/ ApiRaise(1)
    \/ \E ok \in BOOLEAN : SaveDump(1, ok)
    \/ Complete(1)
    \/ EditConfig
    \/ Tick

SpecApi == InitSummary /\ [][NextApi]_vars

\* the application with overlapping analyses: every press of "a" starts a
\* thread in the first free frame while the earlier threads run on; cache
\* writes do not fail
FirstFree(w) ==
    /\ ~Outstanding(frames[w])
    /\ \A v \in Workers : v < w => Outstanding(frames[v])

InitOverlap ==
    /\ InitSummary
    /\ cacheFile \in {NoFile, Entry(FirstDay, OldContent)}

NextOverlap ==
    \/ OnMount
    \/ \E w \in Workers : FirstFree(w) /\ ActionAnalyze(w, TRUE)
    \/ \E w \in Workers : AnalyzeBegin(w)
    \/ \E w \in Workers, c \in Contents : ApiReturn(w, c, TRUE)
    \/ \E w \in Workers : ApiRaise(w)
    \/ \E w \in Workers : SaveDump(w, TRUE)
    \/ \E w \in Workers : Complete(w)

SpecOverlap == InitOverlap /\ [][NextOverlap]_vars

\* two callers of analyze_projects that share the cache file, each forced or
\* not: a call that is not forced reads the file while the other may be
\* writing it; cache writes do not fail
NextShared ==
    \/ OnMount
    \/ \E w \in Workers, force \in BOOLEAN : FirstFree(w) /\ ActionAnalyze(w, force)
    \/ \E w \in Workers : AnalyzeBegin(w)
    \/ \E w \in Workers, c \in Contents : ApiReturn(w, c, TRUE)
    \/ \E w \in Workers : ApiRaise(w)
    \/ \E w \in Workers : SaveDump(w, TRUE)
    \/ \E w \in Workers : Complete(w)

SpecShared == InitOverlap /\ [][NextShared]_vars

----------------------------------------------------------------------------
(* The project list of the summary view *)

\* the descriptors of the lists: every name, without a deadline, due on the
\* first day and due a week later
OrderDescriptors == Descriptors(Names, {NoDdl, FirstDay, FirstDay + 7}, {NoneStr})

\* a descriptor file is added to the config directory
NewConfigFile ==
    /\ Len(configDir) < MaxProjects
    /\ \E d \in OrderDescriptors : configDir' = Append(configDir, d)
    /\ UNCHANGED <<today, matrixVars, summaryVars>>

\* SummaryApp.__init__ over any config directory of up to MaxProjects files
InitOrder ==
    /\ today = FirstDay
    /\ configDir \in SeqsUpTo(OrderDescriptors, MaxProjects)
    /\ projects = <<>>
    /\ quadrants = [q \in QuadrantIds |-> <<>>]
    /\ groupedOn = FirstDay
    /\ apiKey = FALSE
    /\ cacheFile = NoFile
    /\ appProjects = SummaryLoadProjects(configDir)
    /\ frames = [w \in Workers |-> IdleFrame]
    /\ panel = PanelEmpty
    /\ hasAnalyzed = FALSE
    /\ mounted = FALSE
    /\ faulted = FALSE
    /\ lastGood = NoGood

NextOrder == OnMount \/ SummaryRefresh \/ NewConfigFile

SpecOrder == InitOrder /\ [][NextOrder]_vars

----------------------------------------------------------------------------
(* Claims about the cache and the analyzer (specification SpecApi) *)

\* analyze_projects has returned in frame f
Returned(f) == f.pc \in {"returned", "done", "raised", "faulted"}

\* load() is present exactly for an entry of today, and a present result
\* carries no error
LoadIsDayScoped ==
    /\ LoadCachedAnalysis(cacheFile, today).present
          <=> (cacheFile.kind = "entry" /\ cacheFile.date = today)
    /\ LoadCachedAnalysis(cacheFile, today).present
          => LoadCachedAnalysis(cacheFile, today).error = NoError

\* C6 as stated: save(x) followed by load() on the same day returns
\* {error: None, content: x}, and load() is present exactly when the file
\* holds an entry of today.
C6_RoundTripAsStated ==
    /\ LoadIsDayScoped
    /\ \A w \in Workers :
         (Returned(frames[w]) /\ frames[w].wrote # "no"
            /\ frames[w].cacheData.date = today)
         => LoadCachedAnalysis(cacheFile, today)
               = Result(NoError, frames[w].cacheData.content)

\* C6, amended: a save(x) whose write did not fail, followed by load() on the
\* same day, returns {error: None, content: x}; load() is present exactly when
\* the file holds an entry whose date is today, and is absent, never an error,
\* for a missing file, an unreadable file and an entry of another day.
C6_RoundTrip ==
    /\ LoadIsDayScoped
    /\ \A w \in Workers :
         (Returned(frames[w]) /\ frames[w].wrote = "ok"
            /\ frames[w].cacheData.date = today)
         => LoadCachedAnalysis(cacheFile, today)
               = Result(NoError, frames[w].cacheData.content)

\* "R1" was saved over yesterday's entry and is what load() returns today
C6_Witness ==
    /\ frames[1].pc = "returned"
    /\ frames[1].wrote = "ok"
    /\ frames[1].cacheBefore = Entry(FirstDay - 1, OldContent)
    /\ frames[1].cacheData = Entry(today, Str(<<82, 49>>))
    /\ LoadCachedAnalysis(cacheFile, today) = Result(NoError, Str(<<82, 49>>))

C9_NoProjectsAsStated ==
    \A w \in Workers :
        LET f == frames[w]
        IN (f.pc \notin {"idle", "started"} /\ Len(f.args) = 0)
           => /\ f.calls = 0
              /\ f.result = Result(ErrNoProjects, Str(<<>>))

\* C9, amended: analyze with zero projects makes no external call, whatever
\* the credential, the force flag and the cache are; it returns {error: "No
\* projects to analyze", content: ""} when a credential is configured and the
\* cache is not used (force, or no same-day entry); a non-forced call over a
\* same-day entry returns that entry, and without a credential the error is
\* the missing-key message.
C9_NoProjects ==
    \A w \in Workers :
        LET f == frames[w]
        IN (f.pc \notin {"idle", "started"} /\ Len(f.args) = 0)
           => /\ f.calls = 0
              /\ Returned(f)
              /\ f.result =
                    IF (~f.force) /\ f.cacheBefore.kind = "entry"
                         /\ f.cacheBefore.date = f.startDay
                    THEN Result(NoError, f.cacheBefore.content)
                    ELSE IF ~apiKey THEN Result(ErrNoKey, Str(<<>>))
                    ELSE Result(ErrNoProjects, Str(<<>>))

\* a forced request with a credential, no projects and today's entry in the
\* cache ended with the empty-input error on the panel
C9_Witness ==
    /\ frames[1].pc = "done"
    /\ frames[1].force /\ apiKey
    /\ Len(frames[1].args) = 0
    /\ frames[1].cacheBefore = Entry(frames[1].startDay, OldContent)
    /\ frames[1].result = Result(ErrNoProjects, Str(<<>>))
    /\ panel = PanelError(ErrNoProjects)

\* C10: when the external call returns None, "" or white space only, the
\* cache is left as it was before the call and the completion callback shows
\* the empty-response error.
C10_EmptyResponse ==
    \A w \in Workers :
        LET f == frames[w]
        IN (Returned(f) /\ f.calls = 1 /\ f.result.error = NoError
              /\ (f.content.null \/ IsBlank(f.content.chars)))
           => /\ cacheFile = f.cacheBefore
              /\ f.pc # "faulted"
              /\ f.pc = "done" => panel = PanelError(ErrEmptyResponse)

\* the external call of frame f was made and raised
Raised(f) == Returned(f) /\ f.calls >= 1 /\ f.respondedOn = NoDdl

C14_CacheFrame ==
    [][cacheFile' # cacheFile
         => \E w \in Workers :
               /\ frames[w].pc \in {"calling", "writing"}
               /\ frames'[w].pc \in {"writing", "returned"}
               /\ frames'[w].calls = 1
               /\ ~IsEmptyResponse(frames'[w].content)]_vars

\* C16: no outcome of an analysis ends or faults the interactive process:
\* for every result of analyze_projects the completion callback finishes
\* normally and leaves the panel in the ready state or in an error state.
C16_CallbackTotal ==
    \A w \in Workers :
        LET f == frames[w]
        IN /\ f.pc = "returned" => ~CallbackRaises(f.result)
           /\ f.pc # "faulted"
           /\ f.pc = "done" => panel \in {PanelResults(f.result.content),
                                          PanelError(f.result.error),
                                          PanelError(ErrEmptyResponse)}

----------------------------------------------------------------------------
(* Claims about the project list of the summary view (specification SpecOrder) *)

\* s is ordered as the specification says: deadlines first, by (deadline,
\* name), then the projects without a deadline by name
OrderedByDeadline(s) ==
    \A i, j \in 1..Len(s) :
        i < j =>
          /\ s[j].ddl # NoDdl => s[i].ddl # NoDdl
          /\ (s[i].ddl # NoDdl /\ s[j].ddl # NoDdl)
                => /\ s[i].ddl <= s[j].ddl
                   /\ s[i].ddl = s[j].ddl => ~StrLess(s[j].name, s[i].name)
          /\ (s[i].ddl = NoDdl /\ s[j].ddl = NoDdl)
                => ~StrLess(s[j].name, s[i].name)

\* s and t hold the same projects, each as often
SameProjects(s, t) ==
    /\ Len(s) = Len(t)
    /\ \A k \in 1..Len(t) : Count(s, t[k]) = Count(t, t[k])

\* C17: in the list of load_projects every project with a deadline precedes
\* every project without one, the projects with a deadline are in ascending
\* (deadline, name) order and those without in ascending name order, and the
\* list that a refresh produces is a permutation of the projects loaded from
\* the config directory.
C17_SummaryOrder ==
    /\ [](OrderedByDeadline(appProjects))
    /\ [][SummaryRefresh => SameProjects(appProjects', LoadProjects(configDir))]_vars

\* a refreshed list of three: "a" and "ab" due on the same day come first, in
\* this order, then "b" without a deadline, from the directory in the
\* opposite order
C17_Witness ==
    /\ mounted
    /\ configDir = <<[name |-> <<98>>, ddl |-> NoDdl, priority |-> NoneStr],
                     [name |-> <<97, 98>>, ddl |-> FirstDay + 7, priority |-> NoneStr],
                     [name |-> <<97>>, ddl |-> FirstDay + 7, priority |-> NoneStr]>>
    /\ Len(appProjects) = 3
    /\ appProjects[1].name = <<97>> /\ appProjects[2].name = <<97, 98>>
    /\ appProjects[3].name = <<98>> /\ appProjects[3].ddl = NoDdl

----------------------------------------------------------------------------
(* Claims about overlapping analyses (specification SpecOverlap) *)

\* the thread of frame f has entered analyze_projects and its result has not
\* been handed to on_analysis_complete
InAnalyze(f) == f.pc \in {"calling", "writing", "returned"}

\* C12: at most one analysis is in flight at any time: the number of worker
\* threads that have entered analyze_projects and not yet handed their result
\* to the completion callback is at most 1.
C12_OneInFlight == Cardinality({w \in Workers : InAnalyze(frames[w])}) <= 1

\* C13: every analyze request leads to exactly one invocation of the
\* completion callback, carrying the result of that request, also when
\* requests overlap: the callback of an outstanding request can still run
\* (the application has not ended), a request that is no longer outstanding
\* has had its own result delivered, and when nothing is outstanding the
\* application takes requests again.
C13_EveryResultDelivered ==
    /\ \A w \in Workers :
          /\ Outstanding(frames[w]) => ~faulted
          /\ frames[w].pc \in {"done", "raised", "faulted"}
                => frames[w].result.present
    /\ (\A w \in Workers : ~Outstanding(frames[w])) => ~faulted

\* no worker thread is alive and the application runs
Quiescent == ~faulted /\ \A w \in Workers : ~Outstanding(frames[w])

\* C19: display and cache agree at quiescence: when no analysis is in flight
\* and the panel shows a recommendation of the current day, the cache file
\* holds an entry of that day with the content shown, also after two
\* requests whose cache writes and callbacks interleaved. (No cache write
\* fails in SpecOverlap.)
C19_DisplayMatchesCache ==
    (Quiescent /\ panel.state = "ready")
    => /\ cacheFile.kind = "entry"
       /\ cacheFile.date = today
       /\ cacheFile.content = panel.content

\* C20: the analyzing indicator is accurate: while a request issued by
\* action_analyze is outstanding (its completion callback has not run), the
\* panel shows the analyzing state; it shows ready or error only when no
\* request is outstanding.
C20_IndicatorAccurate ==
    (~faulted /\ \E w \in Workers : Outstanding(frames[w]))
    => panel = PanelAnalyzing

----------------------------------------------------------------------------
(* Claims about the shared cache file (specification SpecShared) *)

\* C15: a cache write is a single atomic replace: the file that a
\* load_cached_analysis reads while another caller saves is the complete
\* previous entry (or no file) or the complete new entry, never a partial
\* one, and once no save is under way the file holds a complete entry.
C15_AtomicReplace ==
    /\ \A w \in Workers :
          (frames[w].pc \notin {"idle", "started"} /\ ~frames[w].force)
          => frames[w].cacheBefore.kind # "unreadable"
    /\ (\A w \in Workers : frames[w].pc # "writing")
          => cacheFile.kind # "unreadable"

====
